---- MODULE Spec2Model ----
(***************************************************************************)
(* biblios: the navigation and modal-interaction state machine of          *)
(* src/app.rs (App::handle_action and its helpers), the Document Index of  *)
(* src/bible/mod.rs and the Document Provider of src/bible/loader.rs.      *)
(*                                                                         *)
(* The application state is one record `app` holding the fields of struct  *)
(* App (the fields of app.state and app.settings are flattened with the    *)
(* prefixes state_ and settings_).  Every handler is a pure operator from  *)
(* an App record to a record [a |-> the App afterwards, ok |-> whether the *)
(* handler returned Ok(())], so that the `?` early returns of the code     *)
(* keep the partial updates made before them.                              *)
(***************************************************************************)
EXTENDS Integers, Sequences, FiniteSets, TLC

VARIABLES app, db, exited, shutdown, parsed

vars == <<app, db, exited, shutdown, parsed>>

(***************************************************************************)
(* Bounds of the model.                                                    *)
(***************************************************************************)
\* chapter counts of the Document Index are cut at this many chapters
MaxChapters == 3
\* longest text the picker filter / the search query may hold
MaxFilterLen == 2
\* scroll_offset grows without limit under PageDown; PageDown is cut here
MaxScroll == 10
\* longest search query
MaxQueryLen == 1
\* most bookmarks the list may hold
MaxBookmarks == 1
\* verses of a long chapter (longer than the viewport is high)
MaxVerses == 32
\* longest reference text handed to parse_reference
MaxInputLen == 7

(***************************************************************************)
(* Program constants.                                                      *)
(***************************************************************************)
VIEWPORT_HEIGHT == 30
PAGE_STEP == 10
TAIL_ROWS == 20
MAX_SETTINGS_INDEX == 2

None == <<>>
Some(x) == <<x>>
IsSome(o) == o # <<>>
Unwrap(o) == o[1]

Min(x, y) == IF x < y THEN x ELSE y
Max(x, y) == IF x > y THEN x ELSE y
\* usize::saturating_sub
saturating_sub(x, y) == IF x > y THEN x - y ELSE 0

(***************************************************************************)
(* Strings are sequences of one-character strings.                         *)
(***************************************************************************)
\* char::to_lowercase on the characters that occur in the model
to_lowercase_char(c) ==
    CASE c = "J" -> "j"
      [] c = "O" -> "o"
      [] OTHER -> c

to_lowercase(s) == [i \in 1..Len(s) |-> to_lowercase_char(s[i])]

\* str::contains: needle occurs as a contiguous substring of hay
contains(hay, needle) ==
    \E i \in 0..(Len(hay) - Len(needle)) :
        \A j \in 1..Len(needle) : hay[i + j] = needle[j]

is_ascii_digit(c) == c \in {"0", "1", "2", "3", "4", "5", "6", "7", "8", "9"}

to_digit(c) ==
    CASE c = "0" -> 0 [] c = "1" -> 1 [] c = "2" -> 2 [] c = "3" -> 3
      [] c = "4" -> 4 [] c = "5" -> 5 [] c = "6" -> 6 [] c = "7" -> 7
      [] c = "8" -> 8 [] c = "9" -> 9

(***************************************************************************)
(* Document Index: rows of BOOK_ORDER (short name, full name, chapter      *)
(* count), in the order of the table.  The model keeps three rows of the   *)
(* 66 (Obadiah, John, Jude) and cuts each chapter count at MaxChapters.    *)
(***************************************************************************)
BOOK_ORDER ==
    << [short |-> "Obad", short_chars |-> <<"O", "b", "a", "d">>,
        full_chars |-> <<"O", "b", "a", "d", "i", "a", "h">>,
        chapter_count |-> Min(1, MaxChapters)],
       [short |-> "John", short_chars |-> <<"J", "o", "h", "n">>,
        full_chars |-> <<"J", "o", "h", "n">>,
        chapter_count |-> Min(21, MaxChapters)],
       [short |-> "Jude", short_chars |-> <<"J", "u", "d", "e">>,
        full_chars |-> <<"J", "u", "d", "e">>,
        chapter_count |-> Min(1, MaxChapters)] >>

Books == {BOOK_ORDER[i].short : i \in 1..Len(BOOK_ORDER)}

\* BOOK_ORDER.iter().position(|(name, ..)| name == book): 0-based, None if absent
position(book) ==
    IF \E i \in 1..Len(BOOK_ORDER) : BOOK_ORDER[i].short = book
    THEN Some((CHOOSE i \in 1..Len(BOOK_ORDER) : BOOK_ORDER[i].short = book) - 1)
    ELSE None

get_chapter_count(book_name) ==
    IF IsSome(position(book_name))
    THEN BOOK_ORDER[Unwrap(position(book_name)) + 1].chapter_count
    ELSE 0

(***************************************************************************)
(* Document Provider.  A database is the content of the verses table; a    *)
(* chapter is the sequence of its verse numbers in ascending order.        *)
(*   "sample": the database create_sample_database writes (John 1:1-5 and  *)
(*             John 3:16-17, nothing else);                                *)
(*   "full":   a translation holding every chapter the index lists;        *)
(*   "long":   the same with chapters longer than the viewport is high     *)
(*             (Obadiah 1 and John 1 hold MaxVerses verses).               *)
(***************************************************************************)
Databases == {"sample", "full"}

Range(lo, hi) == [i \in 1..(hi - lo + 1) |-> lo + i - 1]

Verses(d, book, chapter) ==
    IF d = "sample"
    THEN CASE book = "John" /\ chapter = 1 -> Range(1, 5)
           [] book = "John" /\ chapter = 3 -> Range(16, 17)
           [] OTHER -> <<>>
    ELSE IF chapter < 1 \/ chapter > get_chapter_count(book) THEN <<>>
    ELSE IF d = "long"
    THEN CASE book \in {"Obad", "John"} /\ chapter = 1 -> Range(1, MaxVerses)
           [] OTHER -> Range(1, 1)
    ELSE CASE book = "John" /\ chapter = 1 -> Range(1, 3)
           [] book = "Obad" -> Range(1, 2)
           [] OTHER -> Range(1, 1)

\* BibleLoader::load_chapter: Err (None here) when the query fails, otherwise
\* the chapter with the rows found, which may be none
load_chapter(d, book, chapter, query_ok) ==
    IF query_ok
    THEN Some([book |-> book, chapter_number |-> chapter,
               verses |-> Verses(d, book, chapter)])
    ELSE None


(***************************************************************************)
(* Themes: available_themes() cut to two of its seven names; get_theme     *)
(* returns the theme object, named here by its constructor.                *)
(***************************************************************************)
available_themes == <<"Dark", "Nord">>

get_theme(name) ==
    CASE name = "Dark" -> "dark_theme"
      [] name = "Nord" -> "nord_theme"
      [] OTHER -> "dark_theme"

\* themes.iter().position(|t| t == &settings.theme).unwrap_or(0)
theme_position_or_0(name) ==
    IF \E i \in 1..Len(available_themes) : available_themes[i] = name
    THEN (CHOOSE i \in 1..Len(available_themes) : available_themes[i] = name) - 1
    ELSE 0

(***************************************************************************)
(* Input intents (enum Action).  Char carries its character.               *)
(***************************************************************************)
Chars == {"j", "O", "3"}

PlainKinds ==
    {"NextVerse", "PreviousVerse", "ScrollDown", "ScrollUp", "PageDown",
     "PageUp", "GoToTop", "GoToBottom", "OpenSearch", "SearchNext",
     "SearchPrevious", "ToggleBookmark", "OpenBookmarks", "OpenVerseSelector",
     "SelectorUp", "SelectorDown", "SelectorSelect", "SelectorBack",
     "OpenSettings", "OpenHelp", "Quit", "Enter", "Escape", "Tab", "ShiftTab",
     "Backspace", "Delete", "None"}

Act(kind) == [kind |-> kind, c |-> ""]
CharAct(c) == [kind |-> "Char", c |-> c]

Actions == {Act(k) : k \in PlainKinds} \cup {CharAct(c) : c \in Chars}

\* what the outside world answers during one call of handle_action: whether
\* the first and the second load_chapter query succeed, and whether a write of
\* a settings or bookmarks file succeeds
Oracles == [load1 : BOOLEAN, load2 : BOOLEAN, save : BOOLEAN]

Ok(a) == [a |-> a, ok |-> TRUE]
Err(a) == [a |-> a, ok |-> FALSE]

(***************************************************************************)
(* App::load_current_chapter                                               *)
(***************************************************************************)
load_current_chapter(a, d, query_ok) ==
    IF IsSome(a.state_current_book) /\ IsSome(a.state_current_chapter)
    THEN LET r == load_chapter(d, Unwrap(a.state_current_book),
                               Unwrap(a.state_current_chapter), query_ok)
         IN  IF IsSome(r)
             THEN Ok([a EXCEPT !.current_chapter = r,
                               !.current_verse_index = a.state_current_verse_index])
             ELSE Err(a)
    ELSE Ok(a)

(***************************************************************************)
(* App::adjust_scroll_for_current_verse                                    *)
(***************************************************************************)
\* a variant that scrolls one row at a time toward the current verse
adjust_scroll_by_one_row(a) ==
    IF a.current_verse_index < a.scroll_offset
    THEN [a EXCEPT !.scroll_offset = a.scroll_offset - 1]
    ELSE IF a.current_verse_index >= a.scroll_offset + VIEWPORT_HEIGHT
    THEN [a EXCEPT !.scroll_offset = a.scroll_offset + 1]
    ELSE a

\* a variant that brings a verse below the viewport to its top row
adjust_scroll_lands_on_top(a) ==
    IF a.current_verse_index < a.scroll_offset
       \/ a.current_verse_index >= a.scroll_offset + VIEWPORT_HEIGHT
    THEN [a EXCEPT !.scroll_offset = a.current_verse_index]
    ELSE a

adjust_scroll_for_current_verse(a) ==
    IF a.current_verse_index < a.scroll_offset
    THEN [a EXCEPT !.scroll_offset = a.current_verse_index]
    ELSE IF a.current_verse_index >= a.scroll_offset + VIEWPORT_HEIGHT
    THEN [a EXCEPT !.scroll_offset =
                       saturating_sub(a.current_verse_index, VIEWPORT_HEIGHT - 1)]
    ELSE a

(***************************************************************************)
(* App::try_next_book, App::try_previous_book                              *)
(***************************************************************************)
\* a variant that wraps around from the last book to the first
try_next_book_wraps(a, d, query_ok) ==
    IF IsSome(a.state_current_book)
       /\ IsSome(position(Unwrap(a.state_current_book)))
    THEN LET current_idx == Unwrap(position(Unwrap(a.state_current_book)))
             next_book == BOOK_ORDER[((current_idx + 1) % Len(BOOK_ORDER)) + 1].short
             a1 == [a EXCEPT !.state_current_book = Some(next_book),
                             !.state_current_chapter = Some(1)]
             r == load_current_chapter(a1, d, query_ok)
         IN  IF r.ok
             THEN Ok([r.a EXCEPT !.current_verse_index = 0])
             ELSE r
    ELSE Ok(a)

\* a variant that does not reset the verse index in the next book
try_next_book_keeps_index(a, d, query_ok) ==
    IF IsSome(a.state_current_book)
       /\ IsSome(position(Unwrap(a.state_current_book)))
       /\ Unwrap(position(Unwrap(a.state_current_book))) + 1 < Len(BOOK_ORDER)
    THEN LET current_idx == Unwrap(position(Unwrap(a.state_current_book)))
             next_book == BOOK_ORDER[current_idx + 2].short
             a1 == [a EXCEPT !.state_current_book = Some(next_book),
                             !.state_current_chapter = Some(1)]
         IN  load_current_chapter(a1, d, query_ok)
    ELSE Ok(a)

try_next_book(a, d, query_ok) ==
    IF IsSome(a.state_current_book)
       /\ IsSome(position(Unwrap(a.state_current_book)))
       /\ Unwrap(position(Unwrap(a.state_current_book))) + 1 < Len(BOOK_ORDER)
    THEN LET current_idx == Unwrap(position(Unwrap(a.state_current_book)))
             next_book == BOOK_ORDER[current_idx + 2].short
             a1 == [a EXCEPT !.state_current_book = Some(next_book),
                             !.state_current_chapter = Some(1)]
             r == load_current_chapter(a1, d, query_ok)
         IN  IF r.ok
             THEN Ok([r.a EXCEPT !.current_verse_index = 0])
             ELSE r
    ELSE Ok(a)

\* a variant whose test for a previous book also passes at the first book,
\* where it stays in the book and moves to its last chapter
try_previous_book_at_first(a, d, query_ok) ==
    IF IsSome(a.state_current_book)
       /\ IsSome(position(Unwrap(a.state_current_book)))
    THEN LET current_idx == Unwrap(position(Unwrap(a.state_current_book)))
             prev == BOOK_ORDER[Max(current_idx, 1)]
             a1 == [a EXCEPT !.state_current_book = Some(prev.short),
                             !.state_current_chapter = Some(prev.chapter_count)]
             r == load_current_chapter(a1, d, query_ok)
         IN  IF r.ok
             THEN Ok(IF IsSome(r.a.current_chapter)
                     THEN [r.a EXCEPT !.current_verse_index =
                              saturating_sub(Len(Unwrap(r.a.current_chapter).verses), 1)]
                     ELSE r.a)
             ELSE r
    ELSE Ok(a)

try_previous_book(a, d, query_ok) ==
    IF IsSome(a.state_current_book)
       /\ IsSome(position(Unwrap(a.state_current_book)))
       /\ Unwrap(position(Unwrap(a.state_current_book))) > 0
    THEN LET current_idx == Unwrap(position(Unwrap(a.state_current_book)))
             prev == BOOK_ORDER[current_idx]
             a1 == [a EXCEPT !.state_current_book = Some(prev.short),
                             !.state_current_chapter = Some(prev.chapter_count)]
             r == load_current_chapter(a1, d, query_ok)
         IN  IF r.ok
             THEN Ok(IF IsSome(r.a.current_chapter)
                     THEN [r.a EXCEPT !.current_verse_index =
                              saturating_sub(Len(Unwrap(r.a.current_chapter).verses), 1)]
                     ELSE r.a)
             ELSE r
    ELSE Ok(a)


(***************************************************************************)
(* The Location Picker (verse selector)                                    *)
(***************************************************************************)
\* App::get_filtered_books: the rows of BOOK_ORDER that pass the filter
book_matches(row, search) ==
    IF search = <<>>
    THEN TRUE
    ELSE \/ contains(to_lowercase(row.full_chars), to_lowercase(search))
         \/ contains(to_lowercase(row.short_chars), to_lowercase(search))

\* a variant that compares the names with the filter as typed
get_filtered_books_case_sensitive(a) ==
    SelectSeq(BOOK_ORDER,
              LAMBDA row : \/ a.selector_search = <<>>
                           \/ contains(row.full_chars, a.selector_search)
                           \/ contains(row.short_chars, a.selector_search))

get_filtered_books(a) ==
    SelectSeq(BOOK_ORDER, LAMBDA row : book_matches(row, a.selector_search))

\* ui/verse_selector.rs filter_books: the list the renderer draws
filter_books(search) ==
    LET search_lower == to_lowercase(search)
    IN  SelectSeq(BOOK_ORDER,
                  LAMBDA row : IF search = <<>>
                               THEN TRUE
                               ELSE \/ contains(to_lowercase(row.full_chars), search_lower)
                                    \/ contains(to_lowercase(row.short_chars), search_lower))

\* a variant whose Chapter step moves down without looking at the chapter count
handle_selector_down_unclamped(a) ==
    CASE a.selector_step = "Book" ->
            LET filtered_books == get_filtered_books(a)
            IN  IF filtered_books # <<>>
                THEN [a EXCEPT !.selector_index =
                         Min(a.selector_index + 1, Len(filtered_books) - 1)]
                ELSE a
      [] a.selector_step = "Chapter" ->
            [a EXCEPT !.selector_index = a.selector_index + 1]
      [] a.selector_step = "Verse" ->
            IF IsSome(a.current_chapter)
               /\ a.selector_index + 1 < Len(Unwrap(a.current_chapter).verses)
            THEN [a EXCEPT !.selector_index = a.selector_index + 1]
            ELSE a

handle_selector_down(a) ==
    CASE a.selector_step = "Book" ->
            LET filtered_books == get_filtered_books(a)
            IN  IF filtered_books # <<>>
                THEN [a EXCEPT !.selector_index =
                         Min(a.selector_index + 1, Len(filtered_books) - 1)]
                ELSE a
      [] a.selector_step = "Chapter" ->
            IF IsSome(a.selector_selected_book)
               /\ a.selector_index + 1 <
                      get_chapter_count(Unwrap(a.selector_selected_book))
            THEN [a EXCEPT !.selector_index = a.selector_index + 1]
            ELSE a
      [] a.selector_step = "Verse" ->
            IF IsSome(a.current_chapter)
               /\ a.selector_index + 1 < Len(Unwrap(a.current_chapter).verses)
            THEN [a EXCEPT !.selector_index = a.selector_index + 1]
            ELSE a

handle_selector_up(a) ==
    IF a.selector_index > 0
    THEN [a EXCEPT !.selector_index = a.selector_index - 1]
    ELSE a

\* a variant whose cancellation at the Verse step closes the picker
handle_selector_back_closes_at_verse(a) ==
    CASE a.selector_step = "Book" ->
            [a EXCEPT !.selector_open = FALSE, !.selector_search = <<>>]
      [] a.selector_step = "Chapter" ->
            [a EXCEPT !.selector_step = "Book", !.selector_index = 0,
                      !.selector_selected_book = None]
      [] a.selector_step = "Verse" ->
            [a EXCEPT !.selector_open = FALSE, !.selector_index = 0,
                      !.selector_selected_chapter = None]

handle_selector_back(a) ==
    CASE a.selector_step = "Book" ->
            [a EXCEPT !.selector_open = FALSE, !.selector_search = <<>>]
      [] a.selector_step = "Chapter" ->
            [a EXCEPT !.selector_step = "Book", !.selector_index = 0,
                      !.selector_selected_book = None]
      [] a.selector_step = "Verse" ->
            [a EXCEPT !.selector_step = "Chapter", !.selector_index = 0,
                      !.selector_selected_chapter = None]

\* a variant whose Book step confirms the first candidate whatever the selection
handle_selector_select_first_row(a, d, query_ok) ==
    CASE a.selector_step = "Book" ->
            LET filtered_books == get_filtered_books(a)
            IN  IF a.selector_index < Len(filtered_books)
                THEN Ok([a EXCEPT
                        !.selector_selected_book =
                            Some(filtered_books[1].short),
                        !.selector_step = "Chapter",
                        !.selector_index = 0,
                        !.selector_search = <<>>])
                ELSE Ok(a)
      [] a.selector_step = "Chapter" ->
            LET selected_chapter == a.selector_index + 1
                a1 == [a EXCEPT !.selector_selected_chapter = Some(selected_chapter)]
                r == IF IsSome(a.selector_selected_book)
                     THEN load_chapter(d, Unwrap(a.selector_selected_book),
                                       selected_chapter, query_ok)
                     ELSE None
                a2 == IF IsSome(r) THEN [a1 EXCEPT !.current_chapter = r] ELSE a1
            IN  Ok([a2 EXCEPT !.selector_step = "Verse", !.selector_index = 0])
      [] a.selector_step = "Verse" ->
            IF IsSome(a.selector_selected_book) /\ IsSome(a.selector_selected_chapter)
            THEN LET a1 == [a EXCEPT
                            !.state_current_book = a.selector_selected_book,
                            !.state_current_chapter = a.selector_selected_chapter,
                            !.current_verse_index = a.selector_index]
                     r == load_current_chapter(a1, d, query_ok)
                 IN  IF r.ok
                     THEN Ok([adjust_scroll_for_current_verse(
                                  [r.a EXCEPT !.scroll_offset = 0])
                              EXCEPT !.selector_open = FALSE,
                                     !.selector_search = <<>>,
                                     !.selector_selected_book = None,
                                     !.selector_selected_chapter = None])
                     ELSE r
            ELSE Ok(a)

handle_selector_select(a, d, query_ok) ==
    CASE a.selector_step = "Book" ->
            LET filtered_books == get_filtered_books(a)
            IN  IF a.selector_index < Len(filtered_books)
                THEN Ok([a EXCEPT
                        !.selector_selected_book =
                            Some(filtered_books[a.selector_index + 1].short),
                        !.selector_step = "Chapter",
                        !.selector_index = 0,
                        !.selector_search = <<>>])
                ELSE Ok(a)
      [] a.selector_step = "Chapter" ->
            LET selected_chapter == a.selector_index + 1
                a1 == [a EXCEPT !.selector_selected_chapter = Some(selected_chapter)]
                r == IF IsSome(a.selector_selected_book)
                     THEN load_chapter(d, Unwrap(a.selector_selected_book),
                                       selected_chapter, query_ok)
                     ELSE None
                a2 == IF IsSome(r) THEN [a1 EXCEPT !.current_chapter = r] ELSE a1
            IN  Ok([a2 EXCEPT !.selector_step = "Verse", !.selector_index = 0])
      [] a.selector_step = "Verse" ->
            IF IsSome(a.selector_selected_book) /\ IsSome(a.selector_selected_chapter)
            THEN LET a1 == [a EXCEPT
                            !.state_current_book = a.selector_selected_book,
                            !.state_current_chapter = a.selector_selected_chapter,
                            !.current_verse_index = a.selector_index]
                     r == load_current_chapter(a1, d, query_ok)
                 IN  IF r.ok
                     THEN Ok([adjust_scroll_for_current_verse(
                                  [r.a EXCEPT !.scroll_offset = 0])
                              EXCEPT !.selector_open = FALSE,
                                     !.selector_search = <<>>,
                                     !.selector_selected_book = None,
                                     !.selector_selected_chapter = None])
                     ELSE r
            ELSE Ok(a)

\* a variant whose picker block obeys Quit
selector_branch_quits(a, action, d, o) ==
    CASE action.kind = "Escape" -> Ok(handle_selector_back(a))
      [] action.kind = "Enter" -> handle_selector_select(a, d, o.load1)
      [] action.kind = "ScrollDown" -> Ok(handle_selector_down(a))
      [] action.kind = "ScrollUp" -> Ok(handle_selector_up(a))
      [] action.kind = "Char" /\ a.selector_step = "Book" ->
            Ok([a EXCEPT !.selector_search = Append(a.selector_search, action.c),
                         !.selector_index = 0])
      [] action.kind = "Backspace" /\ a.selector_step = "Book" ->
            Ok([a EXCEPT !.selector_search =
                             SubSeq(a.selector_search, 1, Len(a.selector_search) - 1),
                         !.selector_index = 0])
      [] action.kind = "Char" /\ a.selector_step # "Book"
         /\ is_ascii_digit(action.c) ->
            Ok([a EXCEPT !.selector_index = saturating_sub(to_digit(action.c), 1)])
      [] action.kind = "Quit" -> Ok([a EXCEPT !.should_quit = TRUE])
      [] OTHER -> Ok(a)

\* handle_action, the `if self.selector_open` block
selector_branch(a, action, d, o) ==
    CASE action.kind = "Escape" -> Ok(handle_selector_back(a))
      [] action.kind = "Enter" -> handle_selector_select(a, d, o.load1)
      [] action.kind = "ScrollDown" -> Ok(handle_selector_down(a))
      [] action.kind = "ScrollUp" -> Ok(handle_selector_up(a))
      [] action.kind = "Char" /\ a.selector_step = "Book" ->
            Ok([a EXCEPT !.selector_search = Append(a.selector_search, action.c),
                         !.selector_index = 0])
      [] action.kind = "Backspace" /\ a.selector_step = "Book" ->
            Ok([a EXCEPT !.selector_search =
                             SubSeq(a.selector_search, 1, Len(a.selector_search) - 1),
                         !.selector_index = 0])
      [] action.kind = "Char" /\ a.selector_step # "Book"
         /\ is_ascii_digit(action.c) ->
            Ok([a EXCEPT !.selector_index = saturating_sub(to_digit(action.c), 1)])
      [] OTHER -> Ok(a)

(***************************************************************************)
(* handle_action, the theme picker, settings and help blocks               *)
(***************************************************************************)
theme_picker_branch(a, action, o) ==
    CASE action.kind = "ScrollUp" ->
            IF a.theme_picker_index > 0
            THEN Ok([a EXCEPT !.theme_picker_index = a.theme_picker_index - 1,
                              !.theme = get_theme(available_themes[a.theme_picker_index])])
            ELSE Ok(a)
      [] action.kind = "ScrollDown" ->
            IF a.theme_picker_index < Len(available_themes) - 1
            THEN Ok([a EXCEPT !.theme_picker_index = a.theme_picker_index + 1,
                              !.theme = get_theme(available_themes[a.theme_picker_index + 2])])
            ELSE Ok(a)
      [] action.kind = "Enter" ->
            LET a1 == [a EXCEPT !.settings_theme =
                                    available_themes[a.theme_picker_index + 1]]
            IN  IF o.save
                THEN Ok([a1 EXCEPT !.theme_picker_open = FALSE])
                ELSE Err(a1)
      [] action.kind = "Escape" ->
            Ok([a EXCEPT !.theme = get_theme(a.settings_theme),
                         !.theme_picker_open = FALSE])
      [] action.kind = "Quit" -> Ok([a EXCEPT !.should_quit = TRUE])
      [] OTHER -> Ok(a)

settings_branch(a, action, o) ==
    CASE action.kind = "Escape" -> Ok([a EXCEPT !.settings_open = FALSE])
      [] action.kind = "ScrollUp" ->
            IF a.settings_selected_index > 0
            THEN Ok([a EXCEPT !.settings_selected_index = a.settings_selected_index - 1])
            ELSE Ok(a)
      [] action.kind = "ScrollDown" ->
            IF a.settings_selected_index < MAX_SETTINGS_INDEX
            THEN Ok([a EXCEPT !.settings_selected_index = a.settings_selected_index + 1])
            ELSE Ok(a)
      [] action.kind \in {"Enter", "NextVerse"} ->
            CASE a.settings_selected_index = 0 ->
                    Ok([a EXCEPT !.theme_picker_index =
                                     theme_position_or_0(a.settings_theme),
                                 !.theme_picker_open = TRUE])
              [] a.settings_selected_index = 1 ->
                    LET a1 == [a EXCEPT !.settings_show_verse_numbers =
                                            ~a.settings_show_verse_numbers]
                    IN  IF o.save THEN Ok(a1) ELSE Err(a1)
              [] a.settings_selected_index = 2 ->
                    LET a1 == [a EXCEPT !.settings_verse_spacing =
                                            ~a.settings_verse_spacing]
                    IN  IF o.save THEN Ok(a1) ELSE Err(a1)
              [] OTHER -> Ok(a)
      [] action.kind = "PreviousVerse" -> Ok(a)
      [] action.kind = "Quit" -> Ok([a EXCEPT !.should_quit = TRUE])
      [] OTHER -> Ok(a)

\* a variant whose help screen passes ScrollDown on to the reader
help_branch_scrolls(a, action) ==
    CASE action.kind = "Escape" -> Ok([a EXCEPT !.help_open = FALSE])
      [] action.kind = "Quit" -> Ok([a EXCEPT !.should_quit = TRUE])
      [] action.kind = "ScrollDown" ->
            Ok([a EXCEPT !.current_verse_index = a.current_verse_index + 1])
      [] OTHER -> Ok(a)

help_branch(a, action) ==
    CASE action.kind = "Escape" -> Ok([a EXCEPT !.help_open = FALSE])
      [] action.kind = "Quit" -> Ok([a EXCEPT !.should_quit = TRUE])
      [] OTHER -> Ok(a)


(***************************************************************************)
(* handle_action, the base match (no overlay open)                         *)
(***************************************************************************)
\* a variant that moves the verse index and leaves the viewport where it is
scroll_down_within_no_follow(a) ==
    [a EXCEPT !.current_verse_index = a.current_verse_index + 1]

\* Action::ScrollDown, the step inside the loaded chapter
scroll_down_within(a) ==
    adjust_scroll_for_current_verse(
        [a EXCEPT !.current_verse_index = a.current_verse_index + 1])

\* a variant that stops at the end of a book instead of trying the next book
scroll_down_rollover_stays_in_book(a, d, o) ==
    IF IsSome(a.state_current_chapter) /\ IsSome(a.state_current_book)
    THEN LET next_chapter_num == Unwrap(a.state_current_chapter) + 1
             next_chapter == load_chapter(d, Unwrap(a.state_current_book),
                                          next_chapter_num, o.load1)
         IN  IF IsSome(next_chapter) /\ Unwrap(next_chapter).verses # <<>>
             THEN Ok([a EXCEPT
                     !.state_current_chapter = Some(next_chapter_num),
                     !.current_chapter = next_chapter,
                     !.current_verse_index = 0,
                     !.scroll_offset = 0])
             ELSE Ok(a)
    ELSE Ok(a)

\* a variant that keeps the viewport offset when it enters the next chapter
scroll_down_rollover_keeps_offset(a, d, o) ==
    IF IsSome(a.state_current_chapter) /\ IsSome(a.state_current_book)
    THEN LET next_chapter_num == Unwrap(a.state_current_chapter) + 1
             next_chapter == load_chapter(d, Unwrap(a.state_current_book),
                                          next_chapter_num, o.load1)
         IN  IF IsSome(next_chapter) /\ Unwrap(next_chapter).verses # <<>>
             THEN Ok([a EXCEPT
                     !.state_current_chapter = Some(next_chapter_num),
                     !.current_chapter = next_chapter,
                     !.current_verse_index = 0])
             ELSE try_next_book(a, d, o.load2)
    ELSE Ok(a)

\* Action::ScrollDown, past the end of the loaded chapter
scroll_down_rollover(a, d, o) ==
    IF IsSome(a.state_current_chapter) /\ IsSome(a.state_current_book)
    THEN LET next_chapter_num == Unwrap(a.state_current_chapter) + 1
             next_chapter == load_chapter(d, Unwrap(a.state_current_book),
                                          next_chapter_num, o.load1)
         IN  IF IsSome(next_chapter) /\ Unwrap(next_chapter).verses # <<>>
             THEN Ok([a EXCEPT
                     !.state_current_chapter = Some(next_chapter_num),
                     !.current_chapter = next_chapter,
                     !.current_verse_index = 0,
                     !.scroll_offset = 0])
             ELSE try_next_book(a, d, o.load2)
    ELSE Ok(a)

\* Action::ScrollDown (advance)
scroll_down(a, d, o) ==
    IF IsSome(a.current_chapter)
    THEN IF a.current_verse_index <
                saturating_sub(Len(Unwrap(a.current_chapter).verses), 1)
         THEN Ok(scroll_down_within(a))
         ELSE scroll_down_rollover(a, d, o)
    ELSE Ok(a)

\* a variant that scrolls the viewport but forgets to move the verse index
scroll_up_within_stays(a) == adjust_scroll_for_current_verse(a)

\* Action::ScrollUp, the step inside the loaded chapter
scroll_up_within(a) ==
    adjust_scroll_for_current_verse(
        [a EXCEPT !.current_verse_index = a.current_verse_index - 1])

\* a variant that enters the previous chapter without moving the viewport
scroll_up_previous_chapter_keeps_offset(a, d, o) ==
    LET prev_chapter_num == Unwrap(a.state_current_chapter) - 1
        prev_chapter == IF IsSome(a.state_current_book)
                        THEN load_chapter(d, Unwrap(a.state_current_book),
                                          prev_chapter_num, o.load1)
                        ELSE None
    IN  IF IsSome(prev_chapter)
        THEN [a EXCEPT
               !.state_current_chapter = Some(prev_chapter_num),
               !.current_verse_index =
                   saturating_sub(Len(Unwrap(prev_chapter).verses), 1),
               !.current_chapter = prev_chapter]
        ELSE a

\* Action::ScrollUp at verse index 0 of a chapter after the first
scroll_up_previous_chapter(a, d, o) ==
    LET prev_chapter_num == Unwrap(a.state_current_chapter) - 1
        prev_chapter == IF IsSome(a.state_current_book)
                        THEN load_chapter(d, Unwrap(a.state_current_book),
                                          prev_chapter_num, o.load1)
                        ELSE None
    IN  IF IsSome(prev_chapter)
        THEN LET last == saturating_sub(Len(Unwrap(prev_chapter).verses), 1)
             IN  [a EXCEPT
                  !.state_current_chapter = Some(prev_chapter_num),
                  !.current_verse_index = last,
                  !.current_chapter = prev_chapter,
                  !.scroll_offset = saturating_sub(last, TAIL_ROWS)]
        ELSE a

\* Action::ScrollUp (retreat)
scroll_up(a, d, o) ==
    IF a.current_verse_index > 0
    THEN Ok(scroll_up_within(a))
    ELSE IF IsSome(a.state_current_chapter)
    THEN IF Unwrap(a.state_current_chapter) > 1
         THEN Ok(scroll_up_previous_chapter(a, d, o))
         ELSE try_previous_book(a, d, o.load1)
    ELSE Ok(a)

\* Action::PageDown
page_down(a) ==
    IF IsSome(a.current_chapter)
    THEN [a EXCEPT
          !.current_verse_index =
              Min(a.current_verse_index + PAGE_STEP,
                  saturating_sub(Len(Unwrap(a.current_chapter).verses), 1)),
          !.scroll_offset = a.scroll_offset + PAGE_STEP]
    ELSE a

\* Action::PageUp
page_up(a) ==
    [a EXCEPT !.current_verse_index = saturating_sub(a.current_verse_index, PAGE_STEP),
              !.scroll_offset = saturating_sub(a.scroll_offset, PAGE_STEP)]

\* Action::GoToTop
go_to_top(a) == [a EXCEPT !.current_verse_index = 0, !.scroll_offset = 0]

\* Action::GoToBottom
go_to_bottom(a) ==
    IF IsSome(a.current_chapter)
    THEN LET last == saturating_sub(Len(Unwrap(a.current_chapter).verses), 1)
         IN  [a EXCEPT !.current_verse_index = last,
                       !.scroll_offset = saturating_sub(last, TAIL_ROWS)]
    ELSE a

\* a variant that reopens the picker where the last session left it
open_verse_selector_resumes(a) ==
    [a EXCEPT !.selector_open = TRUE, !.selector_search = <<>>,
              !.selector_index = 0]

\* Action::OpenVerseSelector
open_verse_selector(a) ==
    [a EXCEPT !.selector_open = TRUE, !.selector_step = "Book",
              !.selector_search = <<>>, !.selector_index = 0,
              !.selector_selected_book = None,
              !.selector_selected_chapter = None]

\* Action::Escape in the base match
base_escape(a) ==
    IF a.settings_open THEN [a EXCEPT !.settings_open = FALSE]
    ELSE IF a.help_open THEN [a EXCEPT !.help_open = FALSE]
    ELSE [a EXCEPT !.view_mode = "Reader", !.vim_normal_mode = TRUE]

\* BookmarkManager::is_bookmarked, remove, add on the list of references
is_bookmarked(bookmarks, reference) ==
    \E i \in 1..Len(bookmarks) : bookmarks[i] = reference

\* a variant that drops every bookmark, not only those of the reference
bookmarks_remove_all(bookmarks, reference) == <<>>

bookmarks_remove(bookmarks, reference) ==
    SelectSeq(bookmarks, LAMBDA b : b # reference)

bookmarks_add(bookmarks, reference) ==
    Append(SelectSeq(bookmarks, LAMBDA b : b # reference), reference)

\* Action::ToggleBookmark
toggle_bookmark(a, o) ==
    IF IsSome(a.current_chapter)
       /\ a.current_verse_index < Len(Unwrap(a.current_chapter).verses)
    THEN LET chapter == Unwrap(a.current_chapter)
             reference == <<chapter.book, chapter.chapter_number,
                            chapter.verses[a.current_verse_index + 1]>>
             a1 == [a EXCEPT !.bookmarks =
                        IF is_bookmarked(a.bookmarks, reference)
                        THEN bookmarks_remove(a.bookmarks, reference)
                        ELSE bookmarks_add(a.bookmarks, reference)]
         IN  IF o.save THEN Ok(a1) ELSE Err(a1)
    ELSE Ok(a)

\* a variant that leaves the reading-position record as it was
persist_position_skipped(a) == a

\* the `// Persist current reading position to state` tail of handle_action
persist_position(a) ==
    [a EXCEPT !.state_current_verse_index = a.current_verse_index]

base_match(a, action, d, o) ==
    CASE action.kind = "Quit" -> Ok([a EXCEPT !.should_quit = TRUE])
      [] action.kind = "OpenVerseSelector" -> Ok(open_verse_selector(a))
      [] action.kind = "ScrollDown" -> scroll_down(a, d, o)
      [] action.kind = "ScrollUp" -> scroll_up(a, d, o)
      [] action.kind = "PageDown" -> Ok(page_down(a))
      [] action.kind = "PageUp" -> Ok(page_up(a))
      [] action.kind = "GoToTop" -> Ok(go_to_top(a))
      [] action.kind = "GoToBottom" -> Ok(go_to_bottom(a))
      [] action.kind = "OpenSearch" ->
            Ok([a EXCEPT !.view_mode = "Search", !.vim_normal_mode = FALSE])
      [] action.kind = "Escape" -> Ok(base_escape(a))
      [] action.kind = "OpenBookmarks" -> Ok([a EXCEPT !.view_mode = "Bookmarks"])
      [] action.kind = "OpenSettings" -> Ok([a EXCEPT !.settings_open = TRUE])
      [] action.kind = "OpenHelp" -> Ok([a EXCEPT !.help_open = TRUE])
      [] action.kind = "ToggleBookmark" -> toggle_bookmark(a, o)
      [] action.kind = "Char" /\ a.view_mode = "Search" ->
            Ok([a EXCEPT !.search_query = Append(a.search_query, action.c)])
      [] action.kind = "Backspace" /\ a.view_mode = "Search" ->
            Ok([a EXCEPT !.search_query =
                             SubSeq(a.search_query, 1, Len(a.search_query) - 1)])
      [] OTHER -> Ok(a)

(***************************************************************************)
(* App::handle_action                                                      *)
(***************************************************************************)
\* a variant that tests the settings panel before the theme picker
surface_settings_first(a) ==
    IF a.selector_open THEN "LocationPicker"
    ELSE IF a.settings_open THEN "Settings"
    ELSE IF a.theme_picker_open THEN "ThemePicker"
    ELSE IF a.help_open THEN "Help"
    ELSE "Base"

\* a variant in which the settings panel does not intercept intents
surface_settings_transparent(a) ==
    IF a.selector_open THEN "LocationPicker"
    ELSE IF a.theme_picker_open THEN "ThemePicker"
    ELSE IF a.help_open THEN "Help"
    ELSE "Base"

\* a variant in which the help screen does not intercept intents
surface_help_transparent(a) ==
    IF a.selector_open THEN "LocationPicker"
    ELSE IF a.theme_picker_open THEN "ThemePicker"
    ELSE IF a.settings_open THEN "Settings"
    ELSE "Base"

\* which block of handle_action receives the intent
surface(a) ==
    IF a.selector_open THEN "LocationPicker"
    ELSE IF a.theme_picker_open THEN "ThemePicker"
    ELSE IF a.settings_open THEN "Settings"
    ELSE IF a.help_open THEN "Help"
    ELSE "Base"

handle_action(a, action, d, o) ==
    CASE surface(a) = "LocationPicker" -> selector_branch(a, action, d, o)
      [] surface(a) = "ThemePicker" -> theme_picker_branch(a, action, o)
      [] surface(a) = "Settings" -> settings_branch(a, action, o)
      [] surface(a) = "Help" -> help_branch(a, action)
      [] OTHER ->
            LET r == base_match(a, action, d, o)
            IN  IF r.ok THEN Ok(persist_position(r.a)) ELSE r


(***************************************************************************)
(* The state after construction: App::new() followed by with_bible().      *)
(* ReadingState::load gives the default record (John 1, verse index 0)     *)
(* when there is no state file, or the record of the file, which may lack  *)
(* book and chapter.  Construction fails, and the program never runs, when *)
(* the first load_chapter query fails.                                     *)
(***************************************************************************)
ReadingStateDefault ==
    [current_book |-> Some("John"), current_chapter |-> Some(1),
     current_verse_index |-> 0]

ReadingStateNoPosition ==
    [current_book |-> None, current_chapter |-> None, current_verse_index |-> 0]

\* a state file that names no book and no chapter but records a verse index
ReadingStateIndexOnly ==
    [current_book |-> None, current_chapter |-> None, current_verse_index |-> 1]

AppNew(state) ==
    [settings_theme |-> "default",
     settings_show_verse_numbers |-> TRUE,
     settings_verse_spacing |-> TRUE,
     bookmarks |-> <<>>,
     state_current_book |-> state.current_book,
     state_current_chapter |-> state.current_chapter,
     state_current_verse_index |-> state.current_verse_index,
     theme |-> get_theme("default"),
     current_chapter |-> None,
     view_mode |-> "Reader",
     search_query |-> <<>>,
     current_verse_index |-> 0,
     scroll_offset |-> 0,
     vim_normal_mode |-> TRUE,
     selector_open |-> FALSE,
     selector_step |-> "Book",
     selector_search |-> <<>>,
     selector_index |-> 0,
     selector_selected_book |-> None,
     selector_selected_chapter |-> None,
     settings_open |-> FALSE,
     help_open |-> FALSE,
     settings_selected_index |-> 0,
     theme_picker_open |-> FALSE,
     theme_picker_index |-> 0,
     should_quit |-> FALSE]

with_bible(a, d) == load_current_chapter(a, d, TRUE).a

(***************************************************************************)
(* Shutdown: App::save_state and impl Drop for App.  `shutdown` records    *)
(* whether the App has been dropped and which files save_state tried to    *)
(* write, in order.                                                        *)
(***************************************************************************)
\* whether the write of each file succeeds
WriteOutcomes == [state : BOOLEAN, settings : BOOLEAN, bookmarks : BOOLEAN]

NotDropped == [dropped |-> FALSE, attempted |-> <<>>, ok |-> TRUE]

\* App::save_state: self.state.save()?; self.settings.save()?;
\* self.bookmarks.save()?; Ok(())
save_state(w) ==
    IF ~w.state THEN [attempted |-> <<"state">>, ok |-> FALSE]
    ELSE IF ~w.settings THEN [attempted |-> <<"state", "settings">>, ok |-> FALSE]
    ELSE [attempted |-> <<"state", "settings", "bookmarks">>, ok |-> w.bookmarks]

(***************************************************************************)
(* bible::parser::parse_reference.  The function is a library entry point; *)
(* no handler of the App calls it.                                         *)
(***************************************************************************)
\* char::is_whitespace, for the characters of ReferenceChars
is_whitespace(c) == c = " "

\* str::trim
trim(s) ==
    IF \A i \in 1..Len(s) : is_whitespace(s[i]) THEN <<>>
    ELSE LET first == CHOOSE i \in 1..Len(s) :
                         /\ ~is_whitespace(s[i])
                         /\ \A j \in 1..(i - 1) : is_whitespace(s[j])
             last == CHOOSE i \in 1..Len(s) :
                         /\ ~is_whitespace(s[i])
                         /\ \A j \in (i + 1)..Len(s) : is_whitespace(s[j])
         IN  SubSeq(s, first, last)

\* str::split_whitespace: the non-empty runs between whitespace
RECURSIVE split_whitespace(_)
split_whitespace(s) ==
    IF s = <<>> THEN <<>>
    ELSE IF is_whitespace(s[1]) THEN split_whitespace(Tail(s))
    ELSE LET n == IF \E i \in 1..Len(s) : is_whitespace(s[i])
                  THEN (CHOOSE i \in 1..Len(s) :
                           /\ is_whitespace(s[i])
                           /\ \A j \in 1..(i - 1) : ~is_whitespace(s[j])) - 1
                  ELSE Len(s)
         IN  <<SubSeq(s, 1, n)>> \o split_whitespace(SubSeq(s, n + 1, Len(s)))

\* str::split(char): one more piece than separators, empty pieces kept
RECURSIVE split(_, _)
split(s, sep) ==
    IF \E i \in 1..Len(s) : s[i] = sep
    THEN LET i == CHOOSE i \in 1..Len(s) :
                     s[i] = sep /\ \A j \in 1..(i - 1) : s[j] # sep
         IN  <<SubSeq(s, 1, i - 1)>> \o split(SubSeq(s, i + 1, Len(s)), sep)
    ELSE <<s>>

\* [&str]::join
RECURSIVE join(_, _)
join(parts, sep) ==
    IF parts = <<>> THEN <<>>
    ELSE IF Len(parts) = 1 THEN parts[1]
    ELSE parts[1] \o sep \o join(Tail(parts), sep)

\* the digits read so far, as a number
RECURSIVE from_digits(_, _)
from_digits(result, digits) ==
    IF digits = <<>> THEN result
    ELSE from_digits(result * 10 + to_digit(digits[1]), Tail(digits))

\* str::parse::<u32>: an optional '+', then one or more ASCII digits.  The
\* overflow error needs ten digits; the texts here are shorter.
parse_u32(s) ==
    LET digits == IF s # <<>> /\ s[1] = "+" THEN Tail(s) ELSE s
    IN  IF digits # <<>> /\ \A i \in 1..Len(digits) : is_ascii_digit(digits[i])
        THEN Some(from_digits(0, digits))
        ELSE None

\* parts.iter().position(|p| p.contains(':')), zero-based
position_of_chapter_verse(parts) ==
    IF \E i \in 1..Len(parts) : contains(parts[i], <<":">>)
    THEN Some((CHOOSE i \in 1..Len(parts) :
                  /\ contains(parts[i], <<":">>)
                  /\ \A j \in 1..(i - 1) : ~contains(parts[j], <<":">>)) - 1)
    ELSE None

\* a variant that takes the first word alone as the book name
parse_reference_first_word(input) ==
    LET parts == split_whitespace(trim(input))
    IN  IF Len(parts) < 2 THEN None
        ELSE IF ~IsSome(position_of_chapter_verse(parts)) THEN None
        ELSE LET chapter_verse_idx == Unwrap(position_of_chapter_verse(parts))
                 book == join(SubSeq(parts, 1, Min(1, chapter_verse_idx)), <<" ">>)
                 cv_parts == split(parts[chapter_verse_idx + 1], ":")
             IN  IF Len(cv_parts) # 2 THEN None
                 ELSE LET chapter == parse_u32(cv_parts[1])
                          verse == parse_u32(split(cv_parts[2], "-")[1])
                      IN  IF IsSome(chapter) /\ IsSome(verse)
                          THEN Some(<<book, Unwrap(chapter), Unwrap(verse)>>)
                          ELSE None

parse_reference(input) ==
    LET parts == split_whitespace(trim(input))
    IN  IF Len(parts) < 2 THEN None
        ELSE IF ~IsSome(position_of_chapter_verse(parts)) THEN None
        ELSE LET chapter_verse_idx == Unwrap(position_of_chapter_verse(parts))
                 book == join(SubSeq(parts, 1, chapter_verse_idx), <<" ">>)
                 cv_parts == split(parts[chapter_verse_idx + 1], ":")
             IN  IF Len(cv_parts) # 2 THEN None
                 ELSE LET chapter == parse_u32(cv_parts[1])
                          verse == parse_u32(split(cv_parts[2], "-")[1])
                      IN  IF IsSome(chapter) /\ IsSome(verse)
                          THEN Some(<<book, Unwrap(chapter), Unwrap(verse)>>)
                          ELSE None

\* the characters reference texts are made of
ReferenceChars == {"J", "1", " ", ":", "-"}

ReferenceTexts == UNION {[1..n -> ReferenceChars] : n \in 0..MaxInputLen}

\* no call of parse_reference made
NotParsed == [input |-> <<>>, result |-> None, done |-> FALSE]

\* what ReadingState::load may hand to App::new
StartupRecords ==
    {ReadingStateDefault, ReadingStateNoPosition, ReadingStateIndexOnly}

Init ==
    /\ db \in Databases
    /\ \E state \in StartupRecords :
           app = with_bible(AppNew(state), db)
    /\ exited = "no"
    /\ shutdown = NotDropped
    /\ parsed = NotParsed

(***************************************************************************)
(* run_app: one intent is handled to completion per iteration; the loop    *)
(* ends when handle_action returns Err or sets should_quit.                *)
(***************************************************************************)
\* the cuts that keep the unbounded texts, the scroll offset and the bookmark
\* list finite
WithinBounds(a, action) ==
    /\ (surface(a) = "LocationPicker" /\ a.selector_step = "Book"
        /\ action.kind = "Char") => Len(a.selector_search) < MaxFilterLen
    /\ (surface(a) = "Base" /\ a.view_mode = "Search" /\ action.kind = "Char")
           => Len(a.search_query) < MaxQueryLen
    /\ (surface(a) = "Base" /\ action.kind = "PageDown" /\ IsSome(a.current_chapter))
           => a.scroll_offset + PAGE_STEP <= MaxScroll
    /\ (surface(a) = "Base" /\ action.kind = "ToggleBookmark")
           => (Len(a.bookmarks) < MaxBookmarks
               \/ toggle_bookmark(a, [load1 |-> TRUE, load2 |-> TRUE, save |-> TRUE]).a
                      .bookmarks = <<>>)

\* run_app accepts the next intent only while the loop is running
Accepts(action) ==
    /\ exited = "no"
    /\ WithinBounds(app, action)

\* app.handle_action(action)?; if app.should_quit { break; }
Handle(action) ==
    /\ \E r \in {handle_action(app, action, db, o) : o \in Oracles} :
           /\ app' = r.a
           /\ exited' = IF ~r.ok THEN "error"
                        ELSE IF r.a.should_quit THEN "quit"
                        ELSE "no"
    /\ UNCHANGED <<db, shutdown, parsed>>

ScrollDown == Accepts(Act("ScrollDown")) /\ Handle(Act("ScrollDown"))
ScrollUp == Accepts(Act("ScrollUp")) /\ Handle(Act("ScrollUp"))
PageDown == Accepts(Act("PageDown")) /\ Handle(Act("PageDown"))
PageUp == Accepts(Act("PageUp")) /\ Handle(Act("PageUp"))
GoToTop == Accepts(Act("GoToTop")) /\ Handle(Act("GoToTop"))
GoToBottom == Accepts(Act("GoToBottom")) /\ Handle(Act("GoToBottom"))
NextVerse == Accepts(Act("NextVerse")) /\ Handle(Act("NextVerse"))
PreviousVerse == Accepts(Act("PreviousVerse")) /\ Handle(Act("PreviousVerse"))
OpenSearch == Accepts(Act("OpenSearch")) /\ Handle(Act("OpenSearch"))
OpenBookmarks == Accepts(Act("OpenBookmarks")) /\ Handle(Act("OpenBookmarks"))
ToggleBookmark == Accepts(Act("ToggleBookmark")) /\ Handle(Act("ToggleBookmark"))
OpenVerseSelector == Accepts(Act("OpenVerseSelector")) /\ Handle(Act("OpenVerseSelector"))
OpenSettings == Accepts(Act("OpenSettings")) /\ Handle(Act("OpenSettings"))
OpenHelp == Accepts(Act("OpenHelp")) /\ Handle(Act("OpenHelp"))
Quit == Accepts(Act("Quit")) /\ Handle(Act("Quit"))
Enter == Accepts(Act("Enter")) /\ Handle(Act("Enter"))
Escape == Accepts(Act("Escape")) /\ Handle(Act("Escape"))
Backspace == Accepts(Act("Backspace")) /\ Handle(Act("Backspace"))
Char == \E c \in Chars : Accepts(CharAct(c)) /\ Handle(CharAct(c))
\* the intents no block of handle_action names
UnhandledKinds ==
    {"SearchNext", "SearchPrevious", "SelectorUp", "SelectorDown",
     "SelectorSelect", "SelectorBack", "Tab", "ShiftTab", "Delete", "None"}
Unhandled == \E k \in UnhandledKinds : Accepts(Act(k)) /\ Handle(Act(k))

\* impl Drop for App: `let _ = self.save_state();` once the loop has ended
Drop ==
    /\ exited # "no"
    /\ ~shutdown.dropped
    /\ \E w \in WriteOutcomes :
           LET r == save_state(w)
           IN  shutdown' = [dropped |-> TRUE, attempted |-> r.attempted, ok |-> r.ok]
    /\ UNCHANGED <<app, db, exited, parsed>>

(***************************************************************************)
(* Specifications.  The product of the reading position, the picker and    *)
(* the appearance settings is too large to enumerate at once, so each      *)
(* specification runs handle_action under one family of intents:           *)
(*   Spec      reading and the Location Picker;                            *)
(*   SpecModal the overlays (picker, settings, theme picker, help) over    *)
(*             line-by-line reading of the full translation.               *)
(***************************************************************************)
Next ==
    \/ ScrollDown \/ ScrollUp \/ PageDown \/ PageUp \/ GoToTop \/ GoToBottom
    \/ OpenVerseSelector \/ Enter \/ Escape \/ Backspace \/ Char
    \/ Quit \/ Unhandled

Spec == Init /\ [][Next]_vars

NextModal ==
    \/ ScrollDown \/ ScrollUp \/ OpenVerseSelector \/ OpenSettings \/ OpenHelp
    \/ Enter \/ Escape \/ NextVerse \/ PreviousVerse \/ Quit

\* the overlays do not read the database: one translation is enough
InitModal == Init /\ db = "full"

SpecModal == InitModal /\ [][NextModal]_vars

\* reading a translation whose chapters are longer than the viewport is high
NextViewport ==
    \/ ScrollDown \/ ScrollUp \/ PageDown \/ PageUp \/ GoToTop \/ GoToBottom

InitViewport ==
    /\ db = "long"
    /\ app = with_bible(AppNew(ReadingStateDefault), db)
    /\ exited = "no"
    /\ shutdown = NotDropped
    /\ parsed = NotParsed

SpecViewport == InitViewport /\ [][NextViewport]_vars

\* reading, leaving the loop by Quit or by an error, and the drop of the App
NextShutdown ==
    \/ ScrollDown \/ ScrollUp \/ PageDown \/ PageUp \/ GoToTop \/ GoToBottom
    \/ Quit \/ Drop

SpecShutdown == Init /\ [][NextShutdown]_vars

\* reading with the Search and Bookmarks views and the bookmark list
NextViews ==
    \/ ScrollDown \/ ScrollUp \/ PageDown \/ PageUp \/ GoToTop \/ GoToBottom
    \/ OpenSearch \/ OpenBookmarks \/ ToggleBookmark
    \/ Escape \/ Char \/ Backspace

SpecViews == Init /\ [][NextViews]_vars

\* picker sessions that never confirm a verse: the picker is opened from the
\* start-up position, and while it is open every intent it handles arrives
\* except Confirm at the Verse step
PickerDown == app.selector_open /\ ScrollDown
PickerUp == app.selector_open /\ ScrollUp
PickerChar == app.selector_open /\ Char
PickerBackspace == app.selector_open /\ Backspace
PickerCancel == app.selector_open /\ Escape
PickerConfirmBeforeVerse ==
    app.selector_open /\ app.selector_step # "Verse" /\ Enter

NextPicker ==
    \/ OpenVerseSelector \/ PickerDown \/ PickerUp \/ PickerChar
    \/ PickerBackspace \/ PickerCancel \/ PickerConfirmBeforeVerse

InitPicker ==
    /\ db \in Databases
    /\ app = with_bible(AppNew(ReadingStateDefault), db)
    /\ exited = "no"
    /\ shutdown = NotDropped
    /\ parsed = NotParsed

SpecPicker == InitPicker /\ [][NextPicker]_vars

\* reading forward without end: the state file of an earlier run names any
\* verse of the translation, every query of the provider succeeds, and the
\* only intent is advance, which keeps arriving
CompleteDatabases == {"full", "long"}

SavedRecords(d) ==
    {[current_book |-> Some(BOOK_ORDER[b].short), current_chapter |-> Some(c),
      current_verse_index |-> i] :
        <<b, c, i>> \in {t \in (1..Len(BOOK_ORDER)) \X (1..MaxChapters) \X (0..(MaxVerses - 1)) :
                           /\ t[2] <= BOOK_ORDER[t[1]].chapter_count
                           /\ t[3] < Len(Verses(d, BOOK_ORDER[t[1]].short, t[2]))}}

Advance ==
    /\ exited = "no"
    /\ app' = handle_action(app, Act("ScrollDown"), db,
                            [load1 |-> TRUE, load2 |-> TRUE, save |-> TRUE]).a
    /\ UNCHANGED <<db, exited, shutdown, parsed>>

NextAdvance == Advance

InitAdvance ==
    /\ db \in CompleteDatabases
    /\ \E state \in SavedRecords(db) : app = with_bible(AppNew(state), db)
    /\ exited = "no"
    /\ shutdown = NotDropped
    /\ parsed = NotParsed

SpecAdvance == InitAdvance /\ [][NextAdvance]_vars /\ WF_vars(Advance)

\* one call of parse_reference on a reference text
ParseReference ==
    /\ ~parsed.done
    /\ parsed' = [input |-> parsed.input,
                  result |-> parse_reference(parsed.input),
                  done |-> TRUE]
    /\ UNCHANGED <<app, db, exited, shutdown>>

NextParse == ParseReference

InitParse ==
    /\ db = "sample"
    /\ app = with_bible(AppNew(ReadingStateDefault), db)
    /\ exited = "no"
    /\ shutdown = NotDropped
    /\ \E input \in ReferenceTexts :
           parsed = [input |-> input, result |-> None, done |-> FALSE]

SpecParse == InitParse /\ [][NextParse]_vars


(***************************************************************************)
(* Notions the properties share                                            *)
(***************************************************************************)
\* the loop is running: the state is rendered and the next intent is awaited
Running == exited = "no"

AllOk == [load1 |-> TRUE, load2 |-> TRUE, save |-> TRUE]

LoadedLen(a) == Len(Unwrap(a.current_chapter).verses)

\* the Location: book, chapter, verse index
Location(a) == <<a.state_current_book, a.state_current_chapter, a.current_verse_index>>

\* the loaded chapter is the chapter (book, chapter) names
LoadedIs(a, book, chapter) ==
    /\ IsSome(a.current_chapter)
    /\ Some(Unwrap(a.current_chapter).book) = book
    /\ Some(Unwrap(a.current_chapter).chapter_number) = chapter

(***************************************************************************)
(* C1: whenever a chapter is loaded, the current verse index is a valid    *)
(* index into its verses.                                                  *)
(***************************************************************************)
C1_VerseIndexValid ==
    (Running /\ IsSome(app.current_chapter))
        => app.current_verse_index < LoadedLen(app)

(***************************************************************************)
(* C2: whenever the state is rendered with a chapter loaded, the viewport  *)
(* offset is at most the number of verses, so that the slice               *)
(* verses[offset .. min(offset + height, len)] render_verses takes is a    *)
(* valid range.                                                            *)
(***************************************************************************)
C2_RenderSliceValid ==
    (Running /\ IsSome(app.current_chapter))
        => app.scroll_offset <= LoadedLen(app)

(***************************************************************************)
(* C3: the loaded chapter is the chapter of the Location's book and        *)
(* chapter, and it is replaced only when the Location's book or chapter    *)
(* changes.                                                                *)
(***************************************************************************)
C3_LoadedIsLocation ==
    /\ []((Running /\ IsSome(app.current_chapter))
            => LoadedIs(app, app.state_current_book, app.state_current_chapter))
    /\ [][(exited' = "no" /\ app'.current_chapter # app.current_chapter)
            => \/ app'.state_current_book # app.state_current_book
               \/ app'.state_current_chapter # app.state_current_chapter]_vars

(***************************************************************************)
(* C4: Confirm at the picker's Verse step with chosen book b, chosen       *)
(* chapter c and selection index i makes the Location (b, c, i) with       *)
(* chapter (b, c) loaded, closes the picker and clears its filter, chosen  *)
(* book and chosen chapter.                                                *)
(***************************************************************************)
AtVerseStep(a) ==
    /\ a.selector_open
    /\ a.selector_step = "Verse"
    /\ IsSome(a.selector_selected_book)
    /\ IsSome(a.selector_selected_chapter)

C4_VerseConfirmCommits ==
    (Running /\ AtVerseStep(app))
        => LET r == handle_action(app, Act("Enter"), db, AllOk)
           IN  /\ r.ok
               /\ Location(r.a) = <<app.selector_selected_book,
                                    app.selector_selected_chapter,
                                    app.selector_index>>
               /\ LoadedIs(r.a, app.selector_selected_book,
                           app.selector_selected_chapter)
               /\ ~r.a.selector_open
               /\ r.a.selector_search = <<>>
               /\ r.a.selector_selected_book = None
               /\ r.a.selector_selected_chapter = None


(***************************************************************************)
(* C5: intents are routed by the priority LocationPicker > ThemePicker >   *)
(* Settings > Help > base view.  While an overlay is open an intent        *)
(* outside the accepted set of the highest-priority open overlay leaves    *)
(* the whole state unchanged, and no intent changes what belongs to a      *)
(* lower layer.                                                            *)
(***************************************************************************)
OpenOverlays(a) ==
    {s \in {"LocationPicker", "ThemePicker", "Settings", "Help"} :
        \/ s = "LocationPicker" /\ a.selector_open
        \/ s = "ThemePicker" /\ a.theme_picker_open
        \/ s = "Settings" /\ a.settings_open
        \/ s = "Help" /\ a.help_open}

PriorityOrder == <<"LocationPicker", "ThemePicker", "Settings", "Help">>

\* the open overlay that comes first in the priority order, "Base" if none
TopOverlay(a) ==
    IF OpenOverlays(a) = {}
    THEN "Base"
    ELSE PriorityOrder[CHOOSE i \in 1..Len(PriorityOrder) :
                          /\ PriorityOrder[i] \in OpenOverlays(a)
                          /\ \A j \in 1..(i - 1) : PriorityOrder[j] \notin OpenOverlays(a)]

\* the intents each overlay names in its match
AcceptedBy(overlay, a, action) ==
    CASE overlay = "LocationPicker" ->
            \/ action.kind \in {"Escape", "Enter", "ScrollDown", "ScrollUp"}
            \/ action.kind \in {"Char", "Backspace"} /\ a.selector_step = "Book"
            \/ action.kind = "Char" /\ is_ascii_digit(action.c)
      [] overlay = "ThemePicker" ->
            action.kind \in {"ScrollUp", "ScrollDown", "Enter", "Escape", "Quit"}
      [] overlay = "Settings" ->
            action.kind \in {"Escape", "ScrollUp", "ScrollDown", "Enter",
                             "NextVerse", "PreviousVerse", "Quit"}
      [] overlay = "Help" -> action.kind \in {"Escape", "Quit"}
      [] OTHER -> TRUE

ReaderFields(a) ==
    <<a.state_current_book, a.state_current_chapter, a.state_current_verse_index,
      a.current_chapter, a.current_verse_index, a.scroll_offset>>
ViewFields(a) == <<a.view_mode, a.search_query, a.vim_normal_mode, a.bookmarks>>
PickerFields(a) ==
    <<a.selector_open, a.selector_step, a.selector_search, a.selector_index,
      a.selector_selected_book, a.selector_selected_chapter>>
ThemePickerFields(a) ==
    <<a.theme_picker_open, a.theme_picker_index, a.theme, a.settings_theme>>
SettingsFields(a) ==
    <<a.settings_open, a.settings_selected_index, a.settings_show_verse_numbers,
      a.settings_verse_spacing>>
HelpFields(a) == <<a.help_open>>

\* what lies below an overlay: the lower overlays and the base view
LowerLayers(overlay, a) ==
    CASE overlay = "LocationPicker" ->
            <<ThemePickerFields(a), SettingsFields(a), HelpFields(a), ViewFields(a),
              a.should_quit>>
      [] overlay = "ThemePicker" ->
            <<SettingsFields(a), HelpFields(a), ViewFields(a), ReaderFields(a),
              PickerFields(a)>>
      [] overlay = "Settings" ->
            <<HelpFields(a), ViewFields(a), ReaderFields(a), PickerFields(a)>>
      [] overlay = "Help" ->
            <<ViewFields(a), ReaderFields(a), PickerFields(a)>>
      [] OTHER -> <<>>

C5_ModalDispatch ==
    LET top == TopOverlay(app)
        lower == LowerLayers(top, app)
    IN  (Running /\ top # "Base")
            => \A action \in Actions :
                  LET accepted == AcceptedBy(top, app, action)
                  IN  \A o \in Oracles :
                         LET r == handle_action(app, action, db, o)
                         IN  /\ ~accepted => r = Ok(app)
                             /\ LowerLayers(top, r.a) = lower

\* the theme picker is open over the settings panel and has handled a
\* ScrollDown that the settings panel below it did not see
C5_Witness ==
    /\ Running
    /\ app.theme_picker_open /\ app.settings_open
    /\ app.theme_picker_index = 1
    /\ app.settings_selected_index = 0

(***************************************************************************)
(* C6: no two overlay surfaces are open at the same time.                  *)
(***************************************************************************)
C6_OneOverlayAtMost == Cardinality(OpenOverlays(app)) <= 1

\* C6 as amended: no two overlay surfaces are open at the same time, except
\* that the ThemePicker is open together with the Settings panel it was
\* opened from.
C6_OneOverlayOrThemeOverSettings ==
    \/ Cardinality(OpenOverlays(app)) <= 1
    \/ OpenOverlays(app) = {"Settings", "ThemePicker"}

C6_Witness == Running /\ OpenOverlays(app) = {"Settings", "ThemePicker"}


(***************************************************************************)
(* C7: from a Location that is not the last verse of its chapter, advance  *)
(* followed by retreat returns to the same book, chapter and verse index.  *)
(***************************************************************************)
NotLastVerse(a) ==
    /\ IsSome(a.current_chapter)
    /\ a.current_verse_index + 1 < LoadedLen(a)

C7_AdvanceRetreatRoundTrip ==
    (Running /\ TopOverlay(app) = "Base" /\ NotLastVerse(app))
        => \A o1 \in Oracles : \A o2 \in Oracles :
              LET advanced == handle_action(app, Act("ScrollDown"), db, o1)
                  retreated == handle_action(advanced.a, Act("ScrollUp"), db, o2)
              IN  /\ advanced.ok /\ retreated.ok
                  /\ Location(advanced.a) # Location(app)
                  /\ Location(retreated.a) = Location(app)

\* a Location reached by advancing inside a chapter, with a verse still ahead
C7_Witness ==
    /\ Running /\ TopOverlay(app) = "Base" /\ NotLastVerse(app)
    /\ app.current_verse_index >= 1
    /\ LoadedIs(app, app.state_current_book, app.state_current_chapter)

(***************************************************************************)
(* C8: advance at the last verse of the last chapter of the last book      *)
(* changes neither book, chapter, verse index nor the loaded chapter.      *)
(***************************************************************************)
LastBook == BOOK_ORDER[Len(BOOK_ORDER)]
FirstBook == BOOK_ORDER[1]

AtEndOfDocument(a) ==
    /\ a.state_current_book = Some(LastBook.short)
    /\ a.state_current_chapter = Some(LastBook.chapter_count)
    /\ LoadedIs(a, a.state_current_book, a.state_current_chapter)
    /\ LoadedLen(a) >= 1
    /\ a.current_verse_index = LoadedLen(a) - 1

C8_AdvanceAtEndIsNoOp ==
    (Running /\ TopOverlay(app) = "Base" /\ AtEndOfDocument(app))
        => \A o \in Oracles :
              LET r == handle_action(app, Act("ScrollDown"), db, o)
              IN  /\ r.ok
                  /\ Location(r.a) = Location(app)
                  /\ r.a.current_chapter = app.current_chapter

C8_Witness == Running /\ TopOverlay(app) = "Base" /\ AtEndOfDocument(app)

(***************************************************************************)
(* C9: retreat at verse 0 of chapter 1 of the first book leaves the        *)
(* Location unchanged.                                                     *)
(***************************************************************************)
AtStartOfDocument(a) ==
    /\ a.state_current_book = Some(FirstBook.short)
    /\ a.state_current_chapter = Some(1)
    /\ a.current_verse_index = 0

C9_RetreatAtStartIsNoOp ==
    (Running /\ TopOverlay(app) = "Base" /\ AtStartOfDocument(app))
        => \A o \in Oracles :
              LET r == handle_action(app, Act("ScrollUp"), db, o)
              IN  r.ok /\ Location(r.a) = Location(app)

C9_Witness ==
    /\ Running /\ TopOverlay(app) = "Base" /\ AtStartOfDocument(app)
    /\ LoadedIs(app, app.state_current_book, app.state_current_chapter)
    /\ LoadedLen(app) >= 1

(***************************************************************************)
(* C10: retreat from verse 0 of a chapter after the first, when the        *)
(* previous chapter fails to load or is empty, skips back to the previous  *)
(* book, as advance skips forward to the next book.                        *)
(***************************************************************************)
C10_RetreatSkipsUnavailableChapter ==
    (/\ Running /\ TopOverlay(app) = "Base"
     /\ app.current_verse_index = 0
     /\ IsSome(app.state_current_book) /\ IsSome(app.state_current_chapter)
     /\ Unwrap(app.state_current_chapter) > 1
     /\ IsSome(position(Unwrap(app.state_current_book)))
     /\ Unwrap(position(Unwrap(app.state_current_book))) > 0)
        => \A o \in Oracles :
              LET prev == load_chapter(db, Unwrap(app.state_current_book),
                                       Unwrap(app.state_current_chapter) - 1, o.load1)
                  r == handle_action(app, Act("ScrollUp"), db, o)
              IN  (~IsSome(prev) \/ Unwrap(prev).verses = <<>>)
                      => r.a.state_current_book =
                            Some(BOOK_ORDER[Unwrap(position(
                                     Unwrap(app.state_current_book)))].short)


(***************************************************************************)
(* C11: after every intent that changes the verse index or the loaded      *)
(* chapter, the current verse is visible:                                  *)
(* offset <= verse_index < offset + VIEWPORT_HEIGHT.                       *)
(***************************************************************************)
CurrentVerseVisible(a) ==
    /\ a.scroll_offset <= a.current_verse_index
    /\ a.current_verse_index < a.scroll_offset + VIEWPORT_HEIGHT

C11_CurrentVerseVisible ==
    [][(/\ exited' = "no"
        /\ \/ app'.current_verse_index # app.current_verse_index
           \/ app'.current_chapter # app.current_chapter)
          => CurrentVerseVisible(app')]_vars

(***************************************************************************)
(* C12: viewport-follow is idempotent: for every verse index and offset,   *)
(* applying the adjustment a second time leaves the offset of the first    *)
(* application unchanged.                                                  *)
(***************************************************************************)
VerseIndexes == 0..(MaxVerses + PAGE_STEP)
Offsets == 0..(MaxVerses + PAGE_STEP)

C12_ViewportFollowIdempotent ==
    /\ adjust_scroll_for_current_verse(adjust_scroll_for_current_verse(app))
          = adjust_scroll_for_current_verse(app)
    /\ \A i \in VerseIndexes : \A s \in Offsets :
          LET a == [app EXCEPT !.current_verse_index = i, !.scroll_offset = s]
              once == adjust_scroll_for_current_verse(a)
          IN  adjust_scroll_for_current_verse(once) = once

\* the verse lies below the viewport: the adjustment has to scroll down
C12_Witness ==
    /\ Running
    /\ app.current_verse_index >= app.scroll_offset + VIEWPORT_HEIGHT
    /\ adjust_scroll_for_current_verse(app).scroll_offset
          = app.current_verse_index - (VIEWPORT_HEIGHT - 1)


(***************************************************************************)
(* C13: a digit intent d in 1..9 at any picker step sets selection_index   *)
(* to d-1 when d-1 is below the candidate count of the step, and to the    *)
(* last valid index otherwise.                                             *)
(***************************************************************************)
\* the number of candidates the picker offers at its current step
CandidateCount(a) ==
    CASE a.selector_step = "Book" -> Len(get_filtered_books(a))
      [] a.selector_step = "Chapter" ->
            IF IsSome(a.selector_selected_book)
            THEN get_chapter_count(Unwrap(a.selector_selected_book))
            ELSE 0
      [] a.selector_step = "Verse" ->
            IF IsSome(a.current_chapter) THEN LoadedLen(a) ELSE 0

DigitChars == {c \in Chars : is_ascii_digit(c) /\ to_digit(c) >= 1}

C13_DigitJumpClamps ==
    (Running /\ app.selector_open /\ CandidateCount(app) > 0)
        => \A c \in DigitChars : \A o \in Oracles :
              handle_action(app, CharAct(c), db, o).a.selector_index
                  = Min(to_digit(c) - 1, CandidateCount(app) - 1)

(***************************************************************************)
(* C14: while the picker is open and its candidate list is not empty,      *)
(* selection_index is below the candidate count of the current step.       *)
(***************************************************************************)
C14_SelectionIndexInRange ==
    (Running /\ app.selector_open /\ CandidateCount(app) > 0)
        => app.selector_index < CandidateCount(app)

(***************************************************************************)
(* C15: at the Book step the candidate list is exactly the rows of the     *)
(* Document Index whose short or long name contains the filter without     *)
(* regard to case, in index order (the whole index for the empty filter),  *)
(* and the renderer draws the same list.                                   *)
(***************************************************************************)
\* needle occurs in hay when letter case is ignored
ContainsIgnoringCase(hay, needle) ==
    \E i \in 0..(Len(hay) - Len(needle)) :
        \A j \in 1..Len(needle) :
            to_lowercase_char(hay[i + j]) = to_lowercase_char(needle[j])

MatchingRows(search) ==
    {i \in 1..Len(BOOK_ORDER) :
        \/ ContainsIgnoringCase(BOOK_ORDER[i].short_chars, search)
        \/ ContainsIgnoringCase(BOOK_ORDER[i].full_chars, search)}

\* list holds exactly the rows of BOOK_ORDER numbered in rows, in table order
IsRowsInOrder(list, rows) ==
    /\ Len(list) = Cardinality(rows)
    /\ \A k \in 1..Len(list) :
          \E i \in rows :
              /\ list[k] = BOOK_ORDER[i]
              /\ Cardinality({j \in rows : j < i}) = k - 1

C15_BookCandidatesAreMatches ==
    (Running /\ app.selector_open /\ app.selector_step = "Book")
        => /\ IsRowsInOrder(get_filtered_books(app), MatchingRows(app.selector_search))
           /\ app.selector_search = <<>> => get_filtered_books(app) = BOOK_ORDER
           /\ filter_books(app.selector_search) = get_filtered_books(app)

\* a filter that keeps some rows and drops others, matching across letter case
C15_Witness ==
    /\ Running /\ app.selector_open /\ app.selector_step = "Book"
    /\ app.selector_search # <<>>
    /\ app.selector_search # to_lowercase(app.selector_search)
    /\ get_filtered_books(app) # <<>>
    /\ Len(get_filtered_books(app)) < Len(BOOK_ORDER)


(***************************************************************************)
(* C16: the Location's chapter is at least 1 and at most the chapter count *)
(* the Document Index records for the Location's book.                     *)
(***************************************************************************)
C16_ChapterWithinBook ==
    (Running /\ IsSome(app.state_current_book) /\ IsSome(app.state_current_chapter))
        => /\ Unwrap(app.state_current_chapter) >= 1
           /\ Unwrap(app.state_current_chapter)
                  <= get_chapter_count(Unwrap(app.state_current_book))

(***************************************************************************)
(* C17: after every intent the loop goes on from, the reading-position     *)
(* record (book, chapter, verse index) equals the current Location.        *)
(***************************************************************************)
\* the reading-position record: the fields of app.state
PersistedRecord(a) ==
    <<a.state_current_book, a.state_current_chapter, a.state_current_verse_index>>

C17_RecordEqualsLocation ==
    [][exited' = "no" => PersistedRecord(app') = Location(app')]_vars

\* the position has moved to another book and off its first verse
C17_Witness ==
    /\ Running
    /\ IsSome(app.state_current_book) /\ app.state_current_book # Some("John")
    /\ app.current_verse_index >= 1
    /\ PersistedRecord(app) = Location(app)


(***************************************************************************)
(* C18: no error is fatal: for every intent and every outcome of the       *)
(* Document Provider (success, empty chapter, failure), handle_action      *)
(* returns Ok to the main loop.                                            *)
(***************************************************************************)
\* the outcomes in which only the Document Provider may fail
ProviderOutcomes == {o \in Oracles : o.save}

C18_NoFatalError ==
    Running => \A action \in Actions : \A o \in ProviderOutcomes :
                  handle_action(app, action, db, o).ok

(***************************************************************************)
(* C19: when the Document Provider fails while advance or retreat rolls    *)
(* over into another book, or while a picker commit loads its chapter,     *)
(* book, chapter, verse index and loaded chapter stay as they were.        *)
(***************************************************************************)
RolloverAndCommit == {Act("ScrollDown"), Act("ScrollUp"), Act("Enter")}

C19_FailedLoadKeepsPosition ==
    Running => \A action \in RolloverAndCommit : \A o \in ProviderOutcomes :
                  LET r == handle_action(app, action, db, o)
                  IN  ~r.ok => /\ Location(r.a) = Location(app)
                               /\ r.a.current_chapter = app.current_chapter


(***************************************************************************)
(* C20: on shutdown the write of the settings and the write of the         *)
(* bookmarks are each attempted, whether or not an earlier write failed    *)
(* (a failed write is swallowed, not propagated).                          *)
(***************************************************************************)
Attempted(file) ==
    \E i \in 1..Len(shutdown.attempted) : shutdown.attempted[i] = file

C20_ShutdownFlushesAll ==
    shutdown.dropped => Attempted("settings") /\ Attempted("bookmarks")


(***************************************************************************)
(* C21: when the record read at startup names no book or no chapter, the   *)
(* program starts at the default starting location (John 1, verse index 0) *)
(* with that chapter loaded.                                               *)
(***************************************************************************)
DefaultLocation ==
    <<ReadingStateDefault.current_book, ReadingStateDefault.current_chapter,
      ReadingStateDefault.current_verse_index>>

C21_StartsAtDefault ==
    \A state \in StartupRecords :
        (/\ Running
         /\ app = with_bible(AppNew(state), db)
         /\ ~IsSome(state.current_book) \/ ~IsSome(state.current_chapter))
            => /\ Location(app) = DefaultLocation
               /\ LoadedIs(app, DefaultLocation[1], DefaultLocation[2])

(***************************************************************************)
(* C22: page forward, page back, jump to start and jump to end never       *)
(* change book, chapter or the loaded chapter, and leave the verse index   *)
(* within the loaded chapter, from any reader state.                       *)
(***************************************************************************)
PageAndJump ==
    {Act("PageDown"), Act("PageUp"), Act("GoToTop"), Act("GoToBottom")}

C22_PageAndJumpStayInChapter ==
    (Running /\ TopOverlay(app) = "Base" /\ IsSome(app.current_chapter))
        => \A action \in PageAndJump : \A o \in Oracles :
              LET r == handle_action(app, action, db, o)
              IN  /\ r.ok
                  /\ r.a.state_current_book = app.state_current_book
                  /\ r.a.state_current_chapter = app.state_current_chapter
                  /\ r.a.current_chapter = app.current_chapter
                  /\ r.a.current_verse_index < LoadedLen(r.a)

(***************************************************************************)
(* C23: while Settings, ThemePicker or Help is open, no intent changes     *)
(* the reader's Location, loaded chapter, verse index or viewport offset.  *)
(***************************************************************************)
C23_OverlaysFreezeReader ==
    (Running /\ TopOverlay(app) \in {"Settings", "ThemePicker", "Help"})
        => \A action \in Actions : \A o \in Oracles :
              ReaderFields(handle_action(app, action, db, o).a) = ReaderFields(app)

\* the help screen is open over a reader that has a verse to advance to
C23_Witness ==
    /\ Running /\ TopOverlay(app) = "Help"
    /\ NotLastVerse(app)
    /\ app.current_verse_index >= 1


(***************************************************************************)
(* C24: with no overlay open, while Search or Bookmarks is the active      *)
(* view, the reader navigation intents leave the reader's Location, verse  *)
(* index and viewport offset unchanged.                                    *)
(***************************************************************************)
ReaderNavigation ==
    {Act("ScrollDown"), Act("ScrollUp"), Act("PageDown"), Act("PageUp"),
     Act("GoToTop"), Act("GoToBottom")}

C24_ViewsKeepReaderStill ==
    (Running /\ TopOverlay(app) = "Base" /\ app.view_mode \in {"Search", "Bookmarks"})
        => \A action \in ReaderNavigation : \A o \in Oracles :
              LET r == handle_action(app, action, db, o)
              IN  /\ Location(r.a) = Location(app)
                  /\ r.a.scroll_offset = app.scroll_offset


(***************************************************************************)
(* C25: advance at the last verse of a chapter whose next chapter in the   *)
(* same book loads and is not empty moves to that chapter with verse       *)
(* index 0 and viewport offset 0; the book is unchanged.                   *)
(***************************************************************************)
AtLastVerse(a) ==
    /\ IsSome(a.current_chapter)
    /\ LoadedLen(a) >= 1
    /\ a.current_verse_index = LoadedLen(a) - 1
    /\ IsSome(a.state_current_book) /\ IsSome(a.state_current_chapter)

\* what the provider answers for the chapter after the Location's chapter
NextChapter(a, query_ok) ==
    load_chapter(db, Unwrap(a.state_current_book),
                 Unwrap(a.state_current_chapter) + 1, query_ok)

Available(chapter) == IsSome(chapter) /\ Unwrap(chapter).verses # <<>>

C25_AdvanceIntoNextChapter ==
    (Running /\ TopOverlay(app) = "Base" /\ AtLastVerse(app))
        => \A o \in Oracles :
              LET r == handle_action(app, Act("ScrollDown"), db, o)
                  next == NextChapter(app, o.load1)
              IN  Available(next)
                    => /\ r.ok
                       /\ r.a.state_current_book = app.state_current_book
                       /\ r.a.state_current_chapter
                              = Some(Unwrap(app.state_current_chapter) + 1)
                       /\ r.a.current_chapter = next
                       /\ r.a.current_verse_index = 0
                       /\ r.a.scroll_offset = 0

\* the last verse of a chapter, viewport scrolled, with a next chapter to enter
C25_Witness ==
    /\ Running /\ TopOverlay(app) = "Base" /\ AtLastVerse(app)
    /\ app.scroll_offset > 0
    /\ Available(NextChapter(app, TRUE))


(***************************************************************************)
(* C27: advance while verse index + 1 is a valid position of the loaded    *)
(* chapter increases the verse index by exactly one and leaves book,       *)
(* chapter and loaded chapter unchanged; the viewport offset changes only  *)
(* as viewport-follow prescribes for the new index.                        *)
(***************************************************************************)
\* the offset viewport-follow prescribes for a verse index and an offset
FollowOffset(index, offset) ==
    IF index < offset THEN index
    ELSE IF index >= offset + VIEWPORT_HEIGHT THEN index - VIEWPORT_HEIGHT + 1
    ELSE offset

C27_AdvanceWithinChapter ==
    (Running /\ TopOverlay(app) = "Base" /\ NotLastVerse(app))
        => \A o \in Oracles :
              LET r == handle_action(app, Act("ScrollDown"), db, o)
              IN  /\ r.ok
                  /\ r.a.current_verse_index = app.current_verse_index + 1
                  /\ r.a.state_current_book = app.state_current_book
                  /\ r.a.state_current_chapter = app.state_current_chapter
                  /\ r.a.current_chapter = app.current_chapter
                  /\ r.a.scroll_offset
                         = FollowOffset(app.current_verse_index + 1,
                                        app.scroll_offset)

\* the current verse is on the last row of the viewport and a verse follows
C27_Witness ==
    /\ Running /\ TopOverlay(app) = "Base" /\ NotLastVerse(app)
    /\ app.current_verse_index + 1 = app.scroll_offset + VIEWPORT_HEIGHT


(***************************************************************************)
(* C28: advance at the last verse of a chapter whose next chapter fails to *)
(* load or is empty is treated as end-of-book: when a next book exists in  *)
(* the Document Index the Location's book and chapter become (next book,   *)
(* 1) and, that chapter's load succeeding, it is the loaded chapter and    *)
(* the verse index is 0; the later chapters of the current book are not    *)
(* tried, whatever they hold.                                              *)
(***************************************************************************)
HasNextBook(a) ==
    /\ IsSome(a.state_current_book)
    /\ IsSome(position(Unwrap(a.state_current_book)))
    /\ Unwrap(position(Unwrap(a.state_current_book))) + 1 < Len(BOOK_ORDER)

NextBook(a) == BOOK_ORDER[Unwrap(position(Unwrap(a.state_current_book))) + 2].short

AtFirstVerseOfLaterChapter(a) ==
    /\ a.current_verse_index = 0
    /\ IsSome(a.state_current_book)
    /\ IsSome(a.state_current_chapter)
    /\ Unwrap(a.state_current_chapter) > 1

\* what the provider answers for the chapter before the Location's chapter
PreviousChapter(a, query_ok) ==
    load_chapter(db, Unwrap(a.state_current_book),
                 Unwrap(a.state_current_chapter) - 1, query_ok)

\* the viewport reaches the end of the loaded chapter
ShowsTail(a) == a.scroll_offset + VIEWPORT_HEIGHT >= LoadedLen(a)

HasPreviousBook(a) ==
    /\ IsSome(a.state_current_book)
    /\ IsSome(position(Unwrap(a.state_current_book)))
    /\ Unwrap(position(Unwrap(a.state_current_book))) > 0

PreviousBook(a) == BOOK_ORDER[Unwrap(position(Unwrap(a.state_current_book)))]

C30_RetreatIntoPreviousBook ==
    (/\ Running /\ TopOverlay(app) = "Base"
     /\ app.current_verse_index = 0
     /\ app.state_current_chapter = Some(1)
     /\ HasPreviousBook(app))
        => \A o \in Oracles :
              LET r == handle_action(app, Act("ScrollUp"), db, o)
              IN  o.load1
                    => /\ r.ok
                       /\ r.a.state_current_book = Some(PreviousBook(app).short)
                       /\ r.a.state_current_chapter
                              = Some(PreviousBook(app).chapter_count)
                       /\ LoadedIs(r.a, r.a.state_current_book,
                                   r.a.state_current_chapter)
                       /\ LoadedLen(r.a) >= 1
                              => r.a.current_verse_index = LoadedLen(r.a) - 1
                       /\ CurrentVerseVisible(r.a)


(***************************************************************************)
(* C26: parse_reference applied to a text of the form                      *)
(* '<book words> <chapter>:<verse>', the book name being one or more       *)
(* whitespace-separated words, returns the book name with its words joined *)
(* by single spaces, the chapter and the verse.                            *)
(***************************************************************************)
WordStarts(s) ==
    {i \in 1..Len(s) : s[i] # " " /\ (i = 1 \/ s[i - 1] = " ")}

WordEnd(s, i) ==
    CHOOSE j \in i..Len(s) :
        /\ \A k \in i..j : s[k] # " "
        /\ (j = Len(s) \/ s[j + 1] = " ")

\* the words of a text in their order
WordList(s) ==
    [k \in 1..Cardinality(WordStarts(s)) |->
        LET i == CHOOSE i \in WordStarts(s) :
                     Cardinality({j \in WordStarts(s) : j <= i}) = k
        IN  SubSeq(s, i, WordEnd(s, i))]

IsNumber(w) == w # <<>> /\ \A i \in 1..Len(w) : is_ascii_digit(w[i])

\* '<chapter>:<verse>': digits, one colon, digits
IsChapterVerse(w) ==
    \E c \in 1..Len(w) :
        /\ w[c] = ":"
        /\ IsNumber(SubSeq(w, 1, c - 1))
        /\ IsNumber(SubSeq(w, c + 1, Len(w)))

ColonAt(w) == CHOOSE c \in 1..Len(w) : w[c] = ":"

BookWords(s) == SubSeq(WordList(s), 1, Len(WordList(s)) - 1)
ChapterVerse(s) == WordList(s)[Len(WordList(s))]

WellFormedReference(s) ==
    /\ Len(WordList(s)) >= 2
    /\ IsChapterVerse(ChapterVerse(s))
    /\ \A k \in 1..Len(BookWords(s)) :
           \A i \in 1..Len(BookWords(s)[k]) : BookWords(s)[k][i] # ":"

\* b is the given words with exactly one space between neighbours
IsJoinedBySingleSpaces(b, words) ==
    /\ WordList(b) = words
    /\ b # <<>> /\ b[1] # " " /\ b[Len(b)] # " "
    /\ \A i \in 1..(Len(b) - 1) : ~(b[i] = " " /\ b[i + 1] = " ")

RECURSIVE DecimalValue(_)
DecimalValue(ds) ==
    IF ds = <<>> THEN 0
    ELSE 10 * DecimalValue(SubSeq(ds, 1, Len(ds) - 1)) + to_digit(ds[Len(ds)])

C26_ParsesReference ==
    (parsed.done /\ WellFormedReference(parsed.input))
        => /\ IsSome(parsed.result)
           /\ LET r == Unwrap(parsed.result)
                  cv == ChapterVerse(parsed.input)
              IN  /\ IsJoinedBySingleSpaces(r[1], BookWords(parsed.input))
                  /\ r[2] = DecimalValue(SubSeq(cv, 1, ColonAt(cv) - 1))
                  /\ r[3] = DecimalValue(SubSeq(cv, ColonAt(cv) + 1, Len(cv)))

\* a reference with a book name of two words or more has been parsed
C26_Witness ==
    /\ parsed.done
    /\ WellFormedReference(parsed.input)
    /\ Len(BookWords(parsed.input)) >= 2


(***************************************************************************)
(* C31: viewport-follow with height H computes the new offset from         *)
(* (verse_index, offset) as verse_index when verse_index < offset, as      *)
(* verse_index - (H - 1) when verse_index >= offset + H, and as offset     *)
(* otherwise; it leaves the verse index alone, and afterwards              *)
(* offset <= verse_index < offset + H.                                     *)
(***************************************************************************)
FollowsAsPrescribed(a) ==
    LET followed == adjust_scroll_for_current_verse(a)
    IN  /\ followed.scroll_offset
              = (IF a.current_verse_index < a.scroll_offset
                 THEN a.current_verse_index
                 ELSE IF a.current_verse_index >= a.scroll_offset + VIEWPORT_HEIGHT
                 THEN a.current_verse_index - (VIEWPORT_HEIGHT - 1)
                 ELSE a.scroll_offset)
        /\ followed.current_verse_index = a.current_verse_index
        /\ followed.scroll_offset <= followed.current_verse_index
        /\ followed.current_verse_index < followed.scroll_offset + VIEWPORT_HEIGHT

C31_ViewportFollow ==
    /\ FollowsAsPrescribed(app)
    /\ \A i \in VerseIndexes : \A s \in Offsets :
          FollowsAsPrescribed([app EXCEPT !.current_verse_index = i,
                                          !.scroll_offset = s])

\* the verse lies above the viewport: the adjustment has to scroll up
C31_Witness ==
    /\ Running
    /\ app.current_verse_index < app.scroll_offset
    /\ adjust_scroll_for_current_verse(app).scroll_offset = app.current_verse_index


(***************************************************************************)
(* C32: opening the Location Picker always creates a fresh picker state,   *)
(* whatever a previous picker session left behind: step Book, empty        *)
(* filter, selection_index 0, chosen_book and chosen_chapter absent.       *)
(***************************************************************************)
FreshPicker(a) ==
    /\ a.selector_open
    /\ a.selector_step = "Book"
    /\ a.selector_search = <<>>
    /\ a.selector_index = 0
    /\ a.selector_selected_book = None
    /\ a.selector_selected_chapter = None

C32_PickerOpensFresh ==
    [][(~app.selector_open /\ app'.selector_open) => FreshPicker(app')]_vars

\* the picker is closed after a session that ended at the Verse step, and the
\* open intent is accepted
C32_Witness ==
    /\ Running /\ TopOverlay(app) = "Base"
    /\ ~app.selector_open
    /\ app.selector_step = "Verse"
    /\ app.selector_index > 0
    /\ \A o \in Oracles :
          FreshPicker(handle_action(app, Act("OpenVerseSelector"), db, o).a)


(***************************************************************************)
(* C33: at the Book step with a non-empty candidate list, Confirm records  *)
(* the candidate at selection_index of the currently filtered list as      *)
(* chosen_book, clears the filter, and moves to the Chapter step with      *)
(* selection_index 0.                                                      *)
(***************************************************************************)
AtBookStep(a) ==
    /\ a.selector_open
    /\ a.selector_step = "Book"
    /\ get_filtered_books(a) # <<>>

C33_BookConfirm ==
    (Running /\ AtBookStep(app))
        => \A o \in Oracles :
              LET r == handle_action(app, Act("Enter"), db, o)
              IN  /\ r.ok
                  /\ r.a.selector_open
                  /\ r.a.selector_selected_book
                         = Some(get_filtered_books(app)[app.selector_index + 1].short)
                  /\ r.a.selector_search = <<>>
                  /\ r.a.selector_step = "Chapter"
                  /\ r.a.selector_index = 0

\* a filtered list with the selection moved off its first row
C33_Witness ==
    /\ Running /\ AtBookStep(app)
    /\ app.selector_search # <<>>
    /\ app.selector_index > 0


(***************************************************************************)
(* C34: Cancel in the picker moves exactly one step back: from Verse to    *)
(* Chapter (chosen_chapter cleared, selection_index 0), from Chapter to    *)
(* Book (chosen_book cleared, selection_index 0), and from Book it closes  *)
(* the picker; the picker never closes by cancellation from a step other   *)
(* than Book.                                                              *)
(***************************************************************************)
C34_CancelStepsBack ==
    (Running /\ app.selector_open)
        => \A o \in Oracles :
              LET r == handle_action(app, Act("Escape"), db, o)
              IN  /\ r.ok
                  /\ app.selector_step = "Verse"
                        => /\ r.a.selector_open
                           /\ r.a.selector_step = "Chapter"
                           /\ r.a.selector_selected_chapter = None
                           /\ r.a.selector_selected_book = app.selector_selected_book
                           /\ r.a.selector_index = 0
                  /\ app.selector_step = "Chapter"
                        => /\ r.a.selector_open
                           /\ r.a.selector_step = "Book"
                           /\ r.a.selector_selected_book = None
                           /\ r.a.selector_index = 0
                  /\ app.selector_step = "Book" => ~r.a.selector_open
                  /\ ~r.a.selector_open => app.selector_step = "Book"

\* the picker at its Verse step with the selection moved
C34_Witness ==
    /\ Running /\ app.selector_open
    /\ app.selector_step = "Verse"
    /\ IsSome(app.selector_selected_chapter)
    /\ app.selector_index > 0


(***************************************************************************)
(* C35: at every picker step, starting from an in-range selection_index,   *)
(* Up and Down move selection_index by exactly one and never outside       *)
(* [0, count-1], count being the candidate count of the step (filtered     *)
(* books, the chosen book's chapter count, the loaded chapter's verses).   *)
(***************************************************************************)
SelectionInRange(a) ==
    /\ a.selector_open
    /\ CandidateCount(a) > 0
    /\ a.selector_index < CandidateCount(a)

C35_UpDownClamped ==
    (Running /\ SelectionInRange(app))
        => \A o \in Oracles :
              LET down == handle_action(app, Act("ScrollDown"), db, o)
                  up == handle_action(app, Act("ScrollUp"), db, o)
              IN  /\ down.ok /\ up.ok
                  /\ down.a.selector_index
                         = (IF app.selector_index + 1 <= CandidateCount(app) - 1
                            THEN app.selector_index + 1
                            ELSE app.selector_index)
                  /\ up.a.selector_index
                         = (IF app.selector_index >= 1
                            THEN app.selector_index - 1
                            ELSE app.selector_index)
                  /\ down.a.selector_step = app.selector_step
                  /\ up.a.selector_step = app.selector_step
                  /\ CandidateCount(down.a) = CandidateCount(app)
                  /\ CandidateCount(up.a) = CandidateCount(app)

\* the selection on the last of several chapters: Down has to stay
C35_Witness ==
    /\ Running /\ SelectionInRange(app)
    /\ app.selector_step = "Chapter"
    /\ CandidateCount(app) >= 2
    /\ app.selector_index = CandidateCount(app) - 1


(***************************************************************************)
(* C36: opening the Location Picker and leaving it by cancellation (any    *)
(* sequence of picker intents that ends with Cancel at the Book step and   *)
(* holds no Verse-step Confirm) leaves the reader's Location, loaded       *)
(* chapter, verse index and viewport offset as they were before the picker *)
(* opened.  In SpecPicker nothing but such sessions happens after start-up,*)
(* so whenever the picker is closed the reader is where start-up put it.   *)
(***************************************************************************)
ReaderPosition(a) ==
    <<a.state_current_book, a.state_current_chapter, a.current_chapter,
      a.current_verse_index, a.scroll_offset>>

C36_CancelledPickerKeepsReader ==
    (Running /\ ~app.selector_open)
        => ReaderPosition(app)
               = ReaderPosition(with_bible(AppNew(ReadingStateDefault), db))


(***************************************************************************)
(* C37: in every reachable state at most one of selector_open,             *)
(* settings_open and help_open is true, and theme_picker_open implies      *)
(* settings_open: the theme picker is only ever open on top of Settings,   *)
(* and Settings does not close while the theme picker is open.             *)
(***************************************************************************)
OpenPanels(a) ==
    {flag \in {"selector_open", "settings_open", "help_open"} :
        CASE flag = "selector_open" -> a.selector_open
          [] flag = "settings_open" -> a.settings_open
          [] flag = "help_open" -> a.help_open}

C37_PanelsExclusive ==
    /\ [](/\ Cardinality(OpenPanels(app)) <= 1
          /\ app.theme_picker_open => app.settings_open)
    /\ [][(app.theme_picker_open /\ app.settings_open) => app'.settings_open]_vars

\* the theme picker is open over Settings with its selection moved
C37_Witness ==
    /\ Running
    /\ app.theme_picker_open
    /\ app.theme_picker_index >= 1
    /\ OpenPanels(app) = {"settings_open"}


(***************************************************************************)
(* C38: with a provider that returns a non-empty chapter for every (book,  *)
(* chapter) with 1 <= chapter <= the index's chapter count and nothing     *)
(* otherwise, every advance in the Reader from a Location other than the   *)
(* end of the document moves to a strictly later position in document      *)
(* order (book position, chapter, verse), so repeated advance eventually   *)
(* reaches the last verse of the last chapter of the last book and stays.  *)
(***************************************************************************)
BookPosition(a) == Unwrap(position(Unwrap(a.state_current_book)))

\* b is strictly later than a in document order
Later(a, b) ==
    \/ BookPosition(b) > BookPosition(a)
    \/ /\ BookPosition(b) = BookPosition(a)
       /\ \/ Unwrap(b.state_current_chapter) > Unwrap(a.state_current_chapter)
          \/ /\ b.state_current_chapter = a.state_current_chapter
             /\ b.current_verse_index > a.current_verse_index

C38_AdvanceReachesEnd ==
    /\ [][~AtEndOfDocument(app) => Later(app, app')]_vars
    /\ [][AtEndOfDocument(app) => AtEndOfDocument(app')]_vars
    /\ <>[]AtEndOfDocument(app)

\* the last verse of a book that is not the last: advance has to change book
C38_Witness ==
    /\ Running /\ AtLastVerse(app) /\ HasNextBook(app)
    /\ ~AtEndOfDocument(app)
    /\ Unwrap(app.state_current_chapter)
           = get_chapter_count(Unwrap(app.state_current_book))


(***************************************************************************)
(* C39: a Quit intent sets should_quit to true in every state in which the *)
(* Location Picker is not open (base view, Settings, ThemePicker, Help)    *)
(* and leaves should_quit unchanged while the Location Picker is open; no  *)
(* intent ever resets should_quit to false.                                *)
(***************************************************************************)
QuitObeyedOutsidePicker ==
    \A o \in Oracles :
        LET r == handle_action(app, Act("Quit"), db, o)
        IN  /\ r.ok
            /\ r.a.should_quit = (IF app.selector_open THEN app.should_quit ELSE TRUE)

\* whatever the intent, a should_quit that is set stays set
QuitIsNeverReset ==
    LET quitting == [app EXCEPT !.should_quit = TRUE]
    IN  \A action \in Actions : \A o \in Oracles :
            handle_action(quitting, action, db, o).a.should_quit

OnValidVerse(a) ==
    /\ IsSome(a.current_chapter)
    /\ a.current_verse_index < LoadedLen(a)

CursorReference(a) ==
    <<Unwrap(a.current_chapter).book, Unwrap(a.current_chapter).chapter_number,
      Unwrap(a.current_chapter).verses[a.current_verse_index + 1]>>

Bookmarked(a) == {a.bookmarks[i] : i \in 1..Len(a.bookmarks)}

NoDoubleEntry(a) == Cardinality(Bookmarked(a)) = Len(a.bookmarks)

C40_ToggleFlipsOneBookmark ==
    /\ NoDoubleEntry(app)
    /\ (Running /\ TopOverlay(app) = "Base" /\ OnValidVerse(app))
          => \A o1 \in Oracles : \A o2 \in Oracles :
                LET here == CursorReference(app)
                    once == handle_action(app, Act("ToggleBookmark"), db, o1)
                    twice == handle_action(once.a, Act("ToggleBookmark"), db, o2)
                IN  /\ (here \in Bookmarked(once.a)) = (here \notin Bookmarked(app))
                    /\ Bookmarked(once.a) \ {here} = Bookmarked(app) \ {here}
                    /\ NoDoubleEntry(once.a)
                    /\ Bookmarked(twice.a) = Bookmarked(app)
                    /\ NoDoubleEntry(twice.a)
                    /\ ReaderFields(once.a) = ReaderFields(app)

\* the cursor is on a verse without a bookmark while another verse has one
C40_Witness ==
    /\ Running /\ TopOverlay(app) = "Base" /\ OnValidVerse(app)
    /\ app.bookmarks # <<>>
    /\ CursorReference(app) \notin Bookmarked(app)

====
